---- MODULE Spec2Model ----
(***************************************************************************)
(* Model of the store (src/store.py) and its shopping cart                 *)
(* (src/shopping_cart.py).                                                 *)
(*                                                                         *)
(* A name is a sequence of character codes (1 = "a", 2 = "b", ...), so     *)
(* that `fragment in name` is a real substring test and the ordering of    *)
(* names is the codepoint ordering Python uses for str.  A hashtag is a    *)
(* string compared as a whole.  An Item is the record built by             *)
(* Store._convert_to_item_objects.                                         *)
(***************************************************************************)
EXTENDS Integers, Sequences, FiniteSets, TLC

VARIABLES items, cart, last, prior

vars == <<items, cart, last, prior>>

(* ------------------------------ bounds --------------------------------- *)

MaxCatalog == 3
MaxFragLen == 2

(* ------------------------------ inputs --------------------------------- *)

Item(name, price, hashtags, description) ==
    [name |-> name, price |-> price, hashtags |-> hashtags,
     description |-> description]

\* The item records an inventory file can hold.  "a" is a substring of "ab"
\* and of "ba"; the two "ab" records differ in the description only; one
\* hashtag list repeats a tag, one is empty; two items cost the same.
Inventory ==
    { Item(<<1, 2>>, 1, <<"x", "x", "y">>, 1),
      Item(<<1, 2>>, 1, <<"x", "x", "y">>, 2),
      Item(<<2, 1>>, 2, <<"x", "y">>, 1),
      Item(<<2, 2>>, 2, <<"x", "x">>, 1),
      Item(<<1>>, 4, <<>>, 1) }

\* The characters of the names.  A fragment with any other character is
\* contained in no name, as is a fragment of these that no name contains.
Chars == UNION {{it.name[k] : k \in DOMAIN it.name} : it \in Inventory}

\* The strings a caller can pass as item_name: every string over Chars up to
\* MaxFragLen characters, the empty string included.
Fragments == UNION {[1..n -> Chars] : n \in 0..MaxFragLen}

\* The strings a caller can pass as hashtag: the hashtags of the items and
\* one that no item has.
HashtagArgs ==
    UNION {{it.hashtags[k] : k \in DOMAIN it.hashtags} : it \in Inventory}
        \cup {"w"}

\* The item lists Store.__init__ can load.
Catalogs == UNION {[1..n -> Inventory] : n \in 0..MaxCatalog}

(* ------------------------- helpers (Python) ---------------------------- *)

Range(s) == {s[k] : k \in DOMAIN s}

\* sub in s, for str
Contains(sub, s) ==
    \E i \in 0..(Len(s) - Len(sub)) : SubSeq(s, i + 1, i + Len(sub)) = sub

\* a < b, for str
RECURSIVE StrLess(_, _)
StrLess(a, b) ==
    IF b = <<>> THEN FALSE
    ELSE IF a = <<>> THEN TRUE
    ELSE IF Head(a) < Head(b) THEN TRUE
    ELSE IF Head(a) > Head(b) THEN FALSE
    ELSE StrLess(Tail(a), Tail(b))

\* sum(list)
RECURSIVE SumList(_)
SumList(l) == IF l = <<>> THEN 0 ELSE Head(l) + SumList(Tail(l))

\* item in list
InList(item, l) == \E k \in DOMAIN l : l[k] = item

\* list.remove(item): drops the first element equal to item
RECURSIVE ListRemove(_, _)
ListRemove(l, item) ==
    IF l = <<>> THEN <<>>
    ELSE IF Head(l) = item THEN Tail(l)
    ELSE <<Head(l)>> \o ListRemove(Tail(l), item)

\* Counter(l)[t]
Counter(l, t) == Cardinality({k \in DOMAIN l : l[k] = t})

(* --------------------------- ShoppingCart ------------------------------ *)

Result(outcome, newCart, ret) ==
    [outcome |-> outcome, cart |-> newCart, ret |-> ret]

\* Variant: appends before the membership test has had its effect.
ShoppingCart_add_item_late_check(c, item) ==
    IF InList(item, c)
    THEN Result("ItemAlreadyExistsError", Append(c, item), <<>>)
    ELSE Result("ok", Append(c, item), <<>>)

\* Variant: no membership test.
ShoppingCart_add_item_no_check(c, item) == Result("ok", Append(c, item), <<>>)

ShoppingCart_add_item(c, item) ==
    IF InList(item, c)
    THEN Result("ItemAlreadyExistsError", c, <<>>)
    ELSE Result("ok", Append(c, item), <<>>)

\* Variant: the substring test the wrong way round (item.name in item_name).
ShoppingCart_remove_item_swapped(c, item_name) ==
    LET hits == {k \in DOMAIN c : Contains(c[k].name, item_name)}
    IN IF hits = {}
       THEN Result("ItemNotExistError", c, <<>>)
       ELSE LET first == CHOOSE k \in hits : \A j \in hits : k <= j
            IN Result("ok", ListRemove(c, c[first]), <<>>)

ShoppingCart_remove_item(c, item_name) ==
    LET hits == {k \in DOMAIN c : Contains(item_name, c[k].name)}
    IN IF hits = {}
       THEN Result("ItemNotExistError", c, <<>>)
       ELSE LET first == CHOOSE k \in hits : \A j \in hits : k <= j
            IN Result("ok", ListRemove(c, c[first]), <<>>)

\* Variant: sums the distinct prices.
get_subtotal_distinct(c) ==
    LET prices == {c[k].price : k \in DOMAIN c}
        RECURSIVE SumSet(_)
        SumSet(S) == IF S = {} THEN 0
                     ELSE LET x == CHOOSE y \in S : TRUE IN x + SumSet(S \ {x})
    IN SumSet(prices)

get_subtotal(c) ==
    LET sub_total == [k \in DOMAIN c |-> c[k].price]
    IN SumList(sub_total)

(* ------------------------------- Store --------------------------------- *)

\* [hashtag for item in cart for hashtag in item.hashtags]
RECURSIVE list_of_hashtags(_)
list_of_hashtags(c) ==
    IF c = <<>> THEN <<>> ELSE Head(c).hashtags \o list_of_hashtags(Tail(c))

compute_rate(c, items_list) ==
    LET loh == list_of_hashtags(c)
        rate_numbers(item) ==
            LET kept == SelectSeq(item.hashtags, LAMBDA tag : InList(tag, loh))
            IN [j \in DOMAIN kept |-> Counter(loh, kept[j])]
    IN [k \in DOMAIN items_list |->
            <<SumList(rate_numbers(items_list[k])), items_list[k]>>]

\* sorted(l, key=name): stable, ascending
RECURSIVE InsertByName(_, _)
InsertByName(s, x) ==
    IF s = <<>> THEN <<x>>
    ELSE IF StrLess(x.name, Head(s).name) THEN <<x>> \o s
    ELSE <<Head(s)>> \o InsertByName(Tail(s), x)

RECURSIVE SortedByName(_)
SortedByName(l) ==
    IF l = <<>> THEN <<>>
    ELSE InsertByName(SortedByName(SubSeq(l, 1, Len(l) - 1)), l[Len(l)])

\* sorted(tuples, key=tup[0], reverse=True): stable, descending
RECURSIVE InsertByRate(_, _)
InsertByRate(s, t) ==
    IF s = <<>> THEN <<t>>
    ELSE IF t[1] > Head(s)[1] THEN <<t>> \o s
    ELSE <<Head(s)>> \o InsertByRate(Tail(s), t)

RECURSIVE SortedByRate(_)
SortedByRate(l) ==
    IF l = <<>> THEN <<>>
    ELSE InsertByRate(SortedByRate(SubSeq(l, 1, Len(l) - 1)), l[Len(l)])

\* Variant: the pass by rate is left out.
sort_by_rate_name_only(c, items_list) == SortedByName(items_list)

sort_by_rate(c, items_list) ==
    LET by_name == SortedByName(items_list)
        by_rate == SortedByRate(compute_rate(c, by_name))
    IN [k \in DOMAIN by_rate |-> by_rate[k][2]]

\* Variant: the items of the cart are not left out.
search_by_name_keep_cart(its, c, item_name) ==
    LET my_items == SelectSeq(its, LAMBDA item : Contains(item_name, item.name))
    IN Result("ok", c, sort_by_rate(c, my_items))

search_by_name(its, c, item_name) ==
    LET my_items ==
            SelectSeq(its, LAMBDA item :
                Contains(item_name, item.name) /\ ~InList(item, c))
    IN Result("ok", c, sort_by_rate(c, my_items))

search_by_hashtag(its, c, hashtag) ==
    LET my_hashtags ==
            SelectSeq(its, LAMBDA item :
                InList(hashtag, item.hashtags) /\ ~InList(item, c))
    IN Result("ok", c, sort_by_rate(c, my_hashtags))

\* Variant: the cart is consulted before the number of matches.
add_item_dup_first(its, c, item_name) ==
    LET my_items == SelectSeq(its, LAMBDA item : Contains(item_name, item.name))
    IN IF Len(my_items) = 0 THEN Result("ItemNotExistError", c, <<>>)
       ELSE IF InList(my_items[1], c) THEN Result("ItemAlreadyExistsError", c, <<>>)
       ELSE IF Len(my_items) > 1 THEN Result("TooManyMatchesError", c, <<>>)
       ELSE ShoppingCart_add_item(c, my_items[1])

\* Variant: two matches are let through.
add_item_off_by_one(its, c, item_name) ==
    LET my_items == SelectSeq(its, LAMBDA item : Contains(item_name, item.name))
    IN IF Len(my_items) = 0 THEN Result("ItemNotExistError", c, <<>>)
       ELSE IF Len(my_items) > 2 THEN Result("TooManyMatchesError", c, <<>>)
       ELSE ShoppingCart_add_item(c, my_items[1])

\* Variant: no test for several matches.
add_item_first_match(its, c, item_name) ==
    LET my_items == SelectSeq(its, LAMBDA item : Contains(item_name, item.name))
    IN IF Len(my_items) = 0 THEN Result("ItemNotExistError", c, <<>>)
       ELSE ShoppingCart_add_item(c, my_items[1])

add_item(its, c, item_name) ==
    LET my_items == SelectSeq(its, LAMBDA item : Contains(item_name, item.name))
    IN IF Len(my_items) = 0 THEN Result("ItemNotExistError", c, <<>>)
       ELSE IF Len(my_items) > 1 THEN Result("TooManyMatchesError", c, <<>>)
       ELSE ShoppingCart_add_item(c, my_items[1])

\* Variant: no test for several matches.
remove_item_no_precheck(c, item_name) == ShoppingCart_remove_item(c, item_name)

remove_item(c, item_name) ==
    LET my_items == SelectSeq(c, LAMBDA item : Contains(item_name, item.name))
    IN IF Len(my_items) > 1 THEN Result("TooManyMatchesError", c, <<>>)
       ELSE ShoppingCart_remove_item(c, item_name)

checkout(c) == Result("ok", c, get_subtotal(c))

(* ------------------------------ the calls ------------------------------ *)

\* The record of a call: what was called with what, on which cart, and what
\* came back.
Call(op, arg, before, r) ==
    [op |-> op, arg |-> arg, before |-> before,
     outcome |-> r.outcome, ret |-> r.ret]

NoCall == [op |-> "none"]

\* The call before `last`, remembered when it was an add_item that succeeded.
Remember(c) == IF c.op = "add_item" /\ c.outcome = "ok" THEN c ELSE NoCall

Do(op, arg, r) ==
    /\ cart' = r.cart
    /\ last' = Call(op, arg, cart, r)
    /\ prior' = Remember(last)
    /\ UNCHANGED items

Init ==
    /\ items \in Catalogs
    /\ cart = <<>>
    /\ last = NoCall
    /\ prior = NoCall

SearchByName == \E f \in Fragments : Do("search_by_name", f, search_by_name(items, cart, f))

SearchByHashtag == \E t \in HashtagArgs : Do("search_by_hashtag", t, search_by_hashtag(items, cart, t))

AddItem == \E f \in Fragments : Do("add_item", f, add_item(items, cart, f))

RemoveItem == \E f \in Fragments : Do("remove_item", f, remove_item(cart, f))

Checkout == Do("checkout", <<>>, checkout(cart))

Next == SearchByName \/ SearchByHashtag \/ AddItem \/ RemoveItem \/ Checkout

Spec == Init /\ [][Next]_vars

(* ------------------------------ properties ----------------------------- *)

Errors == {"ItemNotExistError", "TooManyMatchesError", "ItemAlreadyExistsError"}

\* The positions of list l whose item's name contains fragment f.
Matching(l, f) == {k \in DOMAIN l : Contains(f, l[k].name)}

\* List l without its k-th element.
Without(l, k) == SubSeq(l, 1, k - 1) \o SubSeq(l, k + 1, Len(l))

\* How many positions of list l hold the value v.
Occurrences(l, v) == Cardinality({k \in DOMAIN l : l[k] = v})

\* The rate of an item against cart c: the pairs (entry of the item's hashtag
\* list, entry of a hashtag list of the cart) that hold the same hashtag.
Rate(item, c) ==
    LET slots == UNION {{<<k, h>> : h \in DOMAIN c[k].hashtags} : k \in DOMAIN c}
    IN Cardinality({p \in (DOMAIN item.hashtags) \X slots :
                        item.hashtags[p[1]] = c[p[2][1]].hashtags[p[2][2]]})

\* The sum of the prices of the first n items of c.
RECURSIVE Total(_, _)
Total(c, n) == IF n = 0 THEN 0 ELSE Total(c, n - 1) + c[n].price

IsSearch == last.op \in {"search_by_name", "search_by_hashtag"}

\* C1: the outcome of add_item(fragment) is decided by the number of catalog
\* items whose name contains the fragment: none is ItemNotExistError, several
\* is TooManyMatchesError (whatever the cart holds), one that is in the cart
\* is ItemAlreadyExistsError, one that is not in the cart succeeds and the
\* item is appended to the cart, the items already there keeping their order.
C1_AddOutcome ==
    last.op = "add_item" =>
        LET m == Matching(items, last.arg)
        IN /\ Cardinality(m) = 0 =>
                last.outcome = "ItemNotExistError"
           /\ Cardinality(m) > 1 =>
                last.outcome = "TooManyMatchesError"
           /\ Cardinality(m) = 1 =>
                LET it == items[CHOOSE k \in m : TRUE]
                IN IF InList(it, last.before)
                   THEN last.outcome = "ItemAlreadyExistsError"
                   ELSE /\ last.outcome = "ok"
                        /\ cart = Append(last.before, it)

\* An add_item that failed for several matches, one of them in the cart.
C1_Witness ==
    /\ last.op = "add_item"
    /\ last.outcome = "TooManyMatchesError"
    /\ \E k \in Matching(items, last.arg) : InList(items[k], last.before)

\* C2: the outcome of remove_item(fragment) is decided by the number of cart
\* items whose name contains the fragment: several is TooManyMatchesError,
\* none is ItemNotExistError, one succeeds and exactly that item leaves the
\* cart, the others keeping their order.
C2_RemoveOutcome ==
    last.op = "remove_item" =>
        LET m == Matching(last.before, last.arg)
        IN /\ Cardinality(m) > 1 =>
                last.outcome = "TooManyMatchesError"
           /\ Cardinality(m) = 0 =>
                last.outcome = "ItemNotExistError"
           /\ Cardinality(m) = 1 =>
                /\ last.outcome = "ok"
                /\ cart = Without(last.before, CHOOSE k \in m : TRUE)

\* A remove_item that succeeded on a fragment several catalog items match,
\* taking an item from the middle or the front of the cart.
C2_Witness ==
    /\ last.op = "remove_item"
    /\ last.outcome = "ok"
    /\ Cardinality(Matching(items, last.arg)) > 1
    /\ \E k \in Matching(last.before, last.arg) : k < Len(last.before)

\* C3: an add_item or remove_item that fails leaves the cart and the catalog
\* as they were; adding an item that is in the cart fails with
\* ItemAlreadyExistsError and the size of the cart stays.
C3_FailureKeepsState ==
    [][ /\ (last'.op \in {"add_item", "remove_item"} /\ last'.outcome \in Errors)
            => (cart' = cart /\ items' = items)
        /\ (/\ last'.op = "add_item"
            /\ Cardinality(Matching(items, last'.arg)) = 1
            /\ \E k \in Matching(items, last'.arg) : InList(items[k], cart))
            => (/\ last'.outcome = "ItemAlreadyExistsError"
                /\ Len(cart') = Len(cart)) ]_vars

\* An add_item of an item that was in the cart.
C3_Witness ==
    /\ last.op = "add_item"
    /\ last.outcome = "ItemAlreadyExistsError"
    /\ Len(last.before) >= 2

\* C4: a remove_item that follows a successful add_item at once, with the
\* same fragment, succeeds and leaves the cart as it was before the add.
C4_RoundTrip ==
    (/\ last.op = "remove_item"
     /\ prior.op = "add_item"
     /\ prior.arg = last.arg)
        => (last.outcome = "ok" /\ cart = prior.before)

\* Such a pair of calls, made on a cart that held something.
C4_Witness ==
    /\ last.op = "remove_item"
    /\ prior.op = "add_item"
    /\ prior.arg = last.arg
    /\ Len(prior.before) >= 1

\* C5: search_by_name(fragment) returns the catalog items whose name contains
\* the fragment and that are not in the cart, search_by_hashtag(tag) those
\* that have the tag among their hashtags and are not in the cart, each as
\* many times as the catalog lists it; neither fails, and search_by_name("")
\* returns every catalog item that is not in the cart.
C5_SearchResult ==
    /\ last.op = "search_by_name" =>
        /\ last.outcome = "ok"
        /\ \A v \in Range(items) \cup Range(last.ret) :
              Occurrences(last.ret, v) =
                  IF Contains(last.arg, v.name) /\ ~InList(v, cart)
                  THEN Occurrences(items, v) ELSE 0
        /\ last.arg = <<>> =>
              \A k \in DOMAIN items :
                  InList(items[k], last.ret) <=> ~InList(items[k], cart)
    /\ last.op = "search_by_hashtag" =>
        /\ last.outcome = "ok"
        /\ \A v \in Range(items) \cup Range(last.ret) :
              Occurrences(last.ret, v) =
                  IF (\E j \in DOMAIN v.hashtags : v.hashtags[j] = last.arg)
                        /\ ~InList(v, cart)
                  THEN Occurrences(items, v) ELSE 0

\* A search by name that left an item of the cart out and returned others.
C5_Witness ==
    /\ last.op = "search_by_name"
    /\ Len(last.ret) >= 2
    /\ \E k \in DOMAIN cart : Contains(last.arg, cart[k].name)

\* C6: the list a search returns is in the order of descending rate, items
\* of equal rate in the order of ascending name; with an empty cart it is in
\* the order of ascending name.
C6_SearchOrder ==
    IsSearch =>
        \A i, j \in DOMAIN last.ret :
            i < j =>
                LET ri == Rate(last.ret[i], cart)
                    rj == Rate(last.ret[j], cart)
                IN /\ ri >= rj
                   /\ (ri = rj \/ cart = <<>>) =>
                        ~StrLess(last.ret[j].name, last.ret[i].name)

\* A search whose result puts a later name first because its rate is higher,
\* and has two items of equal rate as well.
C6_Witness ==
    /\ IsSearch
    /\ \E i, j \in DOMAIN last.ret :
          /\ i < j
          /\ Rate(last.ret[i], cart) > Rate(last.ret[j], cart)
          /\ Rate(last.ret[j], cart) > 0
          /\ StrLess(last.ret[j].name, last.ret[i].name)

\* C7: checkout returns the sum of the prices of the items in the cart (0 for
\* the empty cart, the price of the item for a cart of one item); a
\* successful add raises it by the price of the item added, a successful
\* remove lowers it by the price of the item removed.
C7_CheckoutTotal ==
    /\ checkout(cart).outcome = "ok"
    /\ checkout(cart).ret = Total(cart, Len(cart))
    /\ last.op = "checkout" => last.ret = Total(cart, Len(cart))
    /\ cart = <<>> => checkout(cart).ret = 0
    /\ Len(cart) = 1 => checkout(cart).ret = cart[1].price
    /\ (last.op = "add_item" /\ last.outcome = "ok") =>
          \A k \in Matching(items, last.arg) :
              checkout(cart).ret = checkout(last.before).ret + items[k].price
    /\ (last.op = "remove_item" /\ last.outcome = "ok") =>
          \A k \in Matching(last.before, last.arg) :
              checkout(cart).ret = checkout(last.before).ret - last.before[k].price

\* A checkout of a cart that holds two items of the same price.
C7_Witness ==
    /\ last.op = "checkout"
    /\ \E i, j \in DOMAIN cart : i < j /\ cart[i].price = cart[j].price
    /\ last.ret > 0

\* C8: the cart never holds two equal items, every item of the cart is an item
\* of the catalog, and the catalog never changes.
C8_CartInvariant ==
    /\ [](/\ \A i, j \in DOMAIN cart : cart[i] = cart[j] => i = j
          /\ \A k \in DOMAIN cart : InList(cart[k], items))
    /\ [][items' = items]_vars

\* A cart of three items, after an add_item that was refused as a duplicate.
C8_Witness ==
    /\ Len(cart) >= 3
    /\ last.op = "add_item"
    /\ last.outcome = "ItemAlreadyExistsError"

\* C9: for every item of the cart, remove_item with the item's full name
\* succeeds and removes that item; no other item of the cart has a name that
\* contains it.
C9_RemoveByFullName ==
    /\ \A k \in DOMAIN cart :
          /\ remove_item(cart, cart[k].name).outcome = "ok"
          /\ remove_item(cart, cart[k].name).cart = Without(cart, k)
          /\ Matching(cart, cart[k].name) = {k}
    /\ (last.op = "remove_item" /\ InList(last.arg, [k \in DOMAIN last.before |-> last.before[k].name]))
          => last.outcome = "ok"

\* A remove_item by full name, from a cart that held other items.
C9_Witness ==
    /\ last.op = "remove_item"
    /\ last.outcome = "ok"
    /\ Len(last.before) >= 2
    /\ \E k \in DOMAIN last.before : last.before[k].name = last.arg

\* C10: a catalog item whose name is contained in (or is) the name of another
\* entry of the catalog is never in the cart, add_item failing with
\* TooManyMatchesError for every fragment that matches it.
C10_ShadowedNeverInCart ==
    \A i, j \in DOMAIN items :
        (i # j /\ Contains(items[i].name, items[j].name)) =>
            /\ ~InList(items[i], cart)
            /\ (last.op = "add_item" /\ Contains(last.arg, items[i].name))
                  => last.outcome = "TooManyMatchesError"

\* An add_item by the full name of such an item.
C10_Witness ==
    /\ last.op = "add_item"
    /\ cart # <<>>
    /\ \E i, j \in DOMAIN items :
          /\ i # j
          /\ items[i].name = last.arg
          /\ items[i].name # items[j].name
          /\ Contains(items[i].name, items[j].name)

====
